---------------------------- MODULE Spec2Model ----------------------------
(***************************************************************************)
(* Model of two units of the repository:                                   *)
(*                                                                         *)
(*   Python/docstrings.py                                                  *)
(*       mean_median_mode(numbers) -> (mean, median, mode_list)            *)
(*   Python/Test_Driven_Development_Flask_Project/app.py                   *)
(*       the posts API: get_posts and create_post over the list `posts`    *)
(*                                                                         *)
(* Numbers are Python ints drawn from a small range.  A Python float is    *)
(* modelled by the rational it holds, as a reduced fraction                *)
(* [num |-> p, den |-> q] with q > 0: for the small integers of the model  *)
(* float(), + and / lose nothing that distinguishes two results, so two    *)
(* floats are equal exactly when their fractions are.  An int stays an     *)
(* int: float(x) is the conversion from the int x to the fraction x/1.     *)
(***************************************************************************)
EXTENDS Integers, Sequences, FiniteSets

(***************************************************************************)
(* Bounds of the model.                                                    *)
(***************************************************************************)
MaxLen == 4
MaxVal == 2
MaxNeg == 1
MaxPosts == 3

Values == (0 - MaxNeg)..MaxVal

RECURSIVE SeqsUpTo(_)
SeqsUpTo(k) ==
    IF k = 0 THEN {<<>>}
    ELSE LET shorter == SeqsUpTo(k - 1)
         IN  shorter \cup {Append(s, v) : s \in {t \in shorter : Len(t) = k - 1}, v \in Values}

Inputs == SeqsUpTo(MaxLen)

VARIABLES
    pc,            \* position of the one call of mean_median_mode in flight
    numbers,       \* the caller's sequence, passed as the argument
    data,          \* local: list(numbers)
    n,             \* local: len(data)
    mean,          \* local
    sorted_data,   \* local: sorted(data)
    median,        \* local
    counts,        \* local: Counter(sorted_data), items in insertion order
    mode_list,     \* local
    result,        \* what the caller got from the last call
    posts,         \* app.py: the module-level list
    request,       \* app.py: the JSON body of the last POST /posts
    response,      \* app.py: the answer to the last request
    answered201    \* how many POST /posts requests were answered 201

statsVars == <<pc, numbers, data, n, mean, sorted_data, median, counts, mode_list, result>>
postsVars == <<posts, request, response, answered201>>
vars == <<pc, numbers, data, n, mean, sorted_data, median, counts, mode_list, result,
          posts, request, response, answered201>>

None == [kind |-> "none"]
NoResponse == [handler |-> "none", status |-> 0, body |-> <<>>]

(***************************************************************************)
(* Python floats as reduced fractions.                                     *)
(***************************************************************************)
Abs(x) == IF x < 0 THEN 0 - x ELSE x

RECURSIVE GCD(_, _)
GCD(a, b) == IF b = 0 THEN a ELSE GCD(b, a % b)

\* the float holding p/q, q # 0
Frac(p, q) ==
    LET s == IF q < 0 THEN 0 - 1 ELSE 1
        g == GCD(Abs(p), Abs(q))
    IN  [num |-> (s * p) \div g, den |-> (s * q) \div g]

\* float(x) for an int x
float(x) == Frac(x, 1)

\* a + b on floats
FAdd(a, b) == Frac(a.num * b.den + b.num * a.den, a.den * b.den)

\* a / k on a float a and a non-zero number k (true division)
FDiv(a, k) == Frac(a.num, a.den * k)

(***************************************************************************)
(* Builtins used by mean_median_mode.                                      *)
(***************************************************************************)
\* list(numbers): a new list with the same elements in the same order
list(s) == [i \in 1..Len(s) |-> s[i]]

\* sum(data), left to right from 0
RECURSIVE sum(_)
sum(s) == IF s = <<>> THEN 0 ELSE sum(SubSeq(s, 1, Len(s) - 1)) + s[Len(s)]

\* x put into the ascending sequence s, after the elements equal to it
RECURSIVE Insert(_, _)
Insert(x, s) ==
    IF s = <<>> THEN <<x>>
    ELSE IF x < s[1] THEN <<x>> \o s
    ELSE <<s[1]>> \o Insert(x, Tail(s))

\* a sorted() that returns its argument as it is
SortedUnsorted(s) == s

\* sorted(s): a new list, ascending
RECURSIVE sorted(_)
sorted(s) == IF s = <<>> THEN <<>> ELSE Insert(s[Len(s)], sorted(SubSeq(s, 1, Len(s) - 1)))

\* Counter(s): one [val, cnt] item per distinct value, in order of first occurrence
RECURSIVE Counter(_)
Counter(s) ==
    IF s = <<>> THEN <<>>
    ELSE LET c == Counter(SubSeq(s, 1, Len(s) - 1))
             x == s[Len(s)]
         IN  IF \E i \in 1..Len(c) : c[i].val = x
             THEN [i \in 1..Len(c) |->
                      IF c[i].val = x THEN [val |-> x, cnt |-> c[i].cnt + 1] ELSE c[i]]
             ELSE Append(c, [val |-> x, cnt |-> 1])

\* max(counts.values()) of a non-empty Counter
MaxCount(c) == CHOOSE m \in {c[i].cnt : i \in 1..Len(c)} :
                   \A i \in 1..Len(c) : c[i].cnt <= m

\* [val for val, cnt in counts.items() if cnt == max_count]
RECURSIVE ValuesWithCount(_, _)
ValuesWithCount(c, m) ==
    IF c = <<>> THEN <<>>
    ELSE IF c[1].cnt = m THEN <<c[1].val>> \o ValuesWithCount(Tail(c), m)
    ELSE ValuesWithCount(Tail(c), m)


(***************************************************************************)
(* mean_median_mode, statement by statement.                               *)
(***************************************************************************)
Raised(exc) == [kind |-> "raise", exc |-> exc]
Returned(m, med, modes) == [kind |-> "return", mean |-> m, median |-> med, mode |-> modes]

\* an emptiness test that also rejects one element
IsEmptyOrSingle(d) == Len(d) <= 1

\* an emptiness test that never fires
IsEmptyNever(d) == FALSE

\* `not data`
IsEmpty(d) == Len(d) = 0

\* a mean by floor division
MeanFloorDiv(d, k) == float(sum(d) \div k)

\* float(sum(data)) / n
MeanOf(d, k) == FDiv(float(sum(d)), k)

\* a median that takes sorted_data[mid] whatever the parity of n
MedianUpperMiddle(sd, k) == float(sd[(k \div 2) + 1])

\* mid = n // 2 and the two branches on n % 2; Python indexes from 0
MedianOf(sd, k) ==
    LET m == k \div 2
    IN  IF k % 2 = 1
        THEN float(sd[m + 1])
        ELSE FDiv(FAdd(float(sd[m]), float(sd[m + 1])), 2)

\* a mode list holding only the first of the most common values
ModeListFirstOnly(c) ==
    IF c = <<>> THEN <<>> ELSE <<ValuesWithCount(c, MaxCount(c))[1]>>

\* a mode list with one entry per occurrence of a most common value
RECURSIVE Repeat(_, _)
Repeat(v, k) == IF k = 0 THEN <<>> ELSE <<v>> \o Repeat(v, k - 1)
RECURSIVE ExpandItems(_, _)
ExpandItems(c, m) ==
    IF c = <<>> THEN <<>>
    ELSE IF c[1].cnt = m THEN Repeat(c[1].val, m) \o ExpandItems(Tail(c), m)
    ELSE ExpandItems(Tail(c), m)
ModeListPerOccurrence(c) ==
    IF c = <<>> THEN <<>> ELSE sorted(ExpandItems(c, MaxCount(c)))

\* the `if not counts` branch, max_count and the sorted comprehension
ModeListOf(c) ==
    IF c = <<>> THEN <<>> ELSE sorted(ValuesWithCount(c, MaxCount(c)))

\* the whole call as a function of its argument
mean_median_mode(nums) ==
    LET d == list(nums)
    IN  IF IsEmpty(d) THEN Raised("ValueError")
        ELSE IF Len(d) = 0 THEN Raised("ZeroDivisionError")
        ELSE LET k  == Len(d)
                 sd == sorted(d)
             IN  Returned(MeanOf(d, k), MedianOf(sd, k), ModeListOf(Counter(sd)))

\* the frame of a call is dropped when it returns or raises
LocalsDropped ==
    /\ data' = <<>>
    /\ n' = 0
    /\ mean' = None
    /\ sorted_data' = <<>>
    /\ median' = None
    /\ counts' = <<>>
    /\ mode_list' = <<>>

\* the caller builds a sequence and calls; data = list(numbers)
Call(nums) ==
    /\ pc = "idle"
    /\ numbers' = nums
    /\ data' = list(nums)
    /\ result' = None
    /\ pc' = "check"
    /\ UNCHANGED <<n, mean, sorted_data, median, counts, mode_list>>

\* if not data: raise ValueError
RaiseEmpty ==
    /\ pc = "check"
    /\ IsEmpty(data)
    /\ result' = Raised("ValueError")
    /\ pc' = "done"
    /\ LocalsDropped
    /\ UNCHANGED numbers

\* n = len(data); mean = float(sum(data)) / n
Mean ==
    /\ pc = "check"
    /\ ~IsEmpty(data)
    /\ IF Len(data) = 0
       THEN /\ result' = Raised("ZeroDivisionError")
            /\ pc' = "done"
            /\ LocalsDropped
            /\ UNCHANGED numbers
       ELSE /\ n' = Len(data)
            /\ mean' = MeanOf(data, Len(data))
            /\ pc' = "median"
            /\ UNCHANGED <<numbers, data, sorted_data, median, counts, mode_list, result>>

\* a median step that sorts the argument in place
MedianSortsArgument ==
    /\ pc = "median"
    /\ numbers' = sorted(numbers)
    /\ sorted_data' = sorted(data)
    /\ median' = MedianOf(sorted(data), n)
    /\ pc' = "mode"
    /\ UNCHANGED <<data, n, mean, counts, mode_list, result>>

\* sorted_data = sorted(data) and the median
Median ==
    /\ pc = "median"
    /\ sorted_data' = sorted(data)
    /\ median' = MedianOf(sorted(data), n)
    /\ pc' = "mode"
    /\ UNCHANGED <<numbers, data, n, mean, counts, mode_list, result>>

\* counts = Counter(sorted_data) and the mode list
Mode ==
    /\ pc = "mode"
    /\ counts' = Counter(sorted_data)
    /\ mode_list' = ModeListOf(Counter(sorted_data))
    /\ pc' = "return"
    /\ UNCHANGED <<numbers, data, n, mean, sorted_data, median, result>>

\* return mean, median, mode_list
Return ==
    /\ pc = "return"
    /\ result' = Returned(mean, median, mode_list)
    /\ pc' = "done"
    /\ LocalsDropped
    /\ UNCHANGED numbers

\* the caller lets go of the sequence and of what the call handed back
Discard ==
    /\ pc = "done"
    /\ pc' = "idle"
    /\ numbers' = <<>>
    /\ result' = None
    /\ UNCHANGED <<data, n, mean, sorted_data, median, counts, mode_list>>

(***************************************************************************)
(* The posts API.                                                          *)
(***************************************************************************)
Keys == {"title", "content"}
Texts == {"a", "b"}

\* the JSON objects a client may post: any subset of the keys
JsonBodies == UNION {[K -> Texts] : K \in SUBSET Keys}

InvalidData == [error |-> "Invalid data"]

\* GET /posts
get_posts ==
    /\ response' = [handler |-> "get_posts", status |-> 200, body |-> posts]
    /\ UNCHANGED <<posts, request, answered201>>

\* a create_post that numbers the posts from 0
create_post_id_from_zero(d) ==
    /\ request' = d
    /\ IF "title" \notin DOMAIN d /\ "content" \notin DOMAIN d
       THEN /\ response' = [handler |-> "create_post", status |-> 400, body |-> InvalidData]
            /\ UNCHANGED <<posts, answered201>>
       ELSE IF "title" \notin DOMAIN d \/ "content" \notin DOMAIN d
       THEN /\ response' = [handler |-> "create_post", status |-> 500, body |-> "KeyError"]
            /\ UNCHANGED <<posts, answered201>>
       ELSE LET new_post == [id |-> Len(posts), title |-> d["title"],
                             content |-> d["content"]]
            IN  /\ Len(posts) < MaxPosts
                /\ posts' = Append(posts, new_post)
                /\ response' = [handler |-> "create_post", status |-> 201, body |-> new_post]
                /\ answered201' = answered201 + 1

\* POST /posts with the JSON object d
create_post(d) ==
    /\ request' = d
    /\ IF "title" \notin DOMAIN d /\ "content" \notin DOMAIN d
       THEN \* neither key: 400
            /\ response' = [handler |-> "create_post", status |-> 400, body |-> InvalidData]
            /\ UNCHANGED <<posts, answered201>>
       ELSE IF "title" \notin DOMAIN d \/ "content" \notin DOMAIN d
       THEN \* one key: data['title'] or data['content'] raises KeyError before the
            \* append, and Flask answers an unhandled exception with 500
            /\ response' = [handler |-> "create_post", status |-> 500, body |-> "KeyError"]
            /\ UNCHANGED <<posts, answered201>>
       ELSE LET new_post == [id |-> Len(posts) + 1, title |-> d["title"],
                             content |-> d["content"]]
            IN  /\ Len(posts) < MaxPosts
                /\ posts' = Append(posts, new_post)
                /\ response' = [handler |-> "create_post", status |-> 201, body |-> new_post]
                /\ answered201' = answered201 + 1

(***************************************************************************)
(* Specifications.                                                         *)
(***************************************************************************)
Init ==
    /\ pc = "idle"
    /\ numbers = <<>>
    /\ data = <<>>
    /\ n = 0
    /\ mean = None
    /\ sorted_data = <<>>
    /\ median = None
    /\ counts = <<>>
    /\ mode_list = <<>>
    /\ result = None
    /\ posts = <<>>
    /\ request = None
    /\ response = NoResponse
    /\ answered201 = 0

Next ==
    \/ /\ pc = "idle"
       /\ \E nums \in Inputs : Call(nums)
       /\ UNCHANGED postsVars
    \/ /\ RaiseEmpty
       /\ UNCHANGED postsVars
    \/ /\ Mean
       /\ UNCHANGED postsVars
    \/ /\ Median
       /\ UNCHANGED postsVars
    \/ /\ Mode
       /\ UNCHANGED postsVars
    \/ /\ Return
       /\ UNCHANGED postsVars
    \/ /\ Discard
       /\ UNCHANGED postsVars

Spec == Init /\ [][Next]_vars

NextPosts ==
    \/ /\ get_posts
       /\ UNCHANGED statsVars
    \/ /\ \E d \in JsonBodies : create_post(d)
       /\ UNCHANGED statsVars

SpecPosts == Init /\ [][NextPosts]_vars

(***************************************************************************)
(* Vocabulary of the properties, written without the operators above.      *)
(***************************************************************************)
Range(s) == {s[i] : i \in 1..Len(s)}

\* how many times v occurs in s
Occ(s, v) == Cardinality({i \in 1..Len(s) : s[i] = v})

RECURSIVE Total(_)
Total(s) == IF s = <<>> THEN 0 ELSE s[1] + Total(Tail(s))

StrictlyAscending(s) == \A i \in 1..(Len(s) - 1) : s[i] < s[i + 1]

Descent(s) == \E i \in 1..(Len(s) - 1) : s[i] > s[i + 1]

\* the element at 0-based index k of the ascending sort of s, by rank
AtSortedIndex(s, k) ==
    CHOOSE v \in Range(s) :
        /\ Cardinality({i \in 1..Len(s) : s[i] < v}) <= k
        /\ k < Cardinality({i \in 1..Len(s) : s[i] <= v})

\* the orderings of the index set I, each a sequence
RECURSIVE Orderings(_)
Orderings(I) ==
    IF I = {} THEN {<<>>}
    ELSE UNION {{<<x>> \o f : f \in Orderings(I \ {x})} : x \in I}

\* the rearrangements of s
Permutations(s) == {[i \in 1..Len(s) |-> s[f[i]]] : f \in Orderings(1..Len(s))}

\* the last call has come back to the caller
CallOver == pc = "done"
HasReturned == pc = "done" /\ result.kind = "return"

\* the error kind for empty input is Python's ValueError
EmptyInputError == "ValueError"

(***************************************************************************)
(* Properties.                                                             *)
(***************************************************************************)

\* C1: a call on an input with zero elements ends in the empty-input error raised
\* to the caller; the caller never sees a result, whole or partial, and the
\* call never gets past the emptiness check.
C1_EmptyInputRaises ==
    Len(numbers) = 0 =>
        /\ pc \in {"idle", "check", "done"}
        /\ pc = "done" <=> result = Raised(EmptyInputError)
        /\ pc # "done" => result = None
        /\ mean = None /\ median = None /\ mode_list = <<>>

C1_Witness ==
    pc = "done" /\ Len(numbers) = 0 /\ result = Raised(EmptyInputError)

\* C2: for a non-empty input the mode list is non-empty and holds exactly the
\* distinct values whose number of occurrences is the maximum one.
C2_ModesAreAllMostFrequent ==
    (HasReturned /\ Len(numbers) > 0) =>
        /\ result.mode # <<>>
        /\ Range(result.mode) =
              {v \in Range(numbers) :
                  \A w \in Range(numbers) : Occ(numbers, w) <= Occ(numbers, v)}

\* a tie between two values, next to a value that occurs less often
C2_Witness ==
    /\ HasReturned
    /\ Len(result.mode) >= 2
    /\ Len(numbers) > Len(result.mode)

\* C3: the median is taken on the ascending sort: index n div 2 for odd n, the
\* exact average of indices n/2 - 1 and n/2 for even n.
C3_MedianOfSorted ==
    (HasReturned /\ Len(numbers) > 0) =>
        LET k == Len(numbers)
        IN  IF k % 2 = 1
            THEN result.median = [num |-> AtSortedIndex(numbers, k \div 2), den |-> 1]
            ELSE /\ result.median.den > 0
                 /\ 2 * result.median.num =
                       (AtSortedIndex(numbers, (k \div 2) - 1)
                          + AtSortedIndex(numbers, k \div 2)) * result.median.den

\* an even count, not in ascending order, whose median is a half-integer
C3_Witness ==
    /\ HasReturned
    /\ Len(numbers) % 2 = 0
    /\ Len(numbers) > 0
    /\ Descent(numbers)
    /\ result.median.den = 2

\* C4: the mean is the sum of the elements over their number, as a true quotient.
C4_MeanIsExactQuotient ==
    (HasReturned /\ Len(numbers) > 0) =>
        /\ result.mean.den > 0
        /\ result.mean.num * Len(numbers) = Total(numbers) * result.mean.den

\* integer inputs whose mean is not an integer
C4_Witness ==
    /\ HasReturned
    /\ result.mean.den > 1

\* C5: the mode list is strictly ascending.
C5_ModesStrictlyAscending ==
    (HasReturned /\ Len(numbers) > 0) => StrictlyAscending(result.mode)

\* several modes, each occurring more than once, from an input out of order
C5_Witness ==
    /\ HasReturned
    /\ Len(result.mode) >= 2
    /\ Len(numbers) >= 2 * Len(result.mode)
    /\ numbers[1] > numbers[2]

C7_SingleElement ==
    (CallOver /\ Len(numbers) = 1) =>
        result = [kind |-> "return",
                  mean |-> [num |-> numbers[1], den |-> 1],
                  median |-> [num |-> numbers[1], den |-> 1],
                  mode |-> <<numbers[1]>>]

C7_Witness ==
    /\ HasReturned
    /\ Len(numbers) = 1
    /\ numbers[1] < 0

\* C8: no step of a call changes the caller's sequence, whether the call returns
\* or raises, and what a call hands back depends on its argument alone.
C8_NoSideEffects ==
    [][pc \notin {"idle", "done"} =>
          /\ numbers' = numbers
          /\ pc' = "done" => /\ result' = mean_median_mode(numbers)
                             /\ data' = <<>> /\ sorted_data' = <<>> /\ counts' = <<>>]_vars

\* a call has returned and the caller's sequence is still out of order
C8_Witness ==
    /\ HasReturned
    /\ Len(numbers) >= 2
    /\ numbers[1] > numbers[Len(numbers)]
    /\ result.mode # numbers

\* C9: the post at position i has id i, the number of posts is the number of
\* 201 answers, and a get_posts request leaves the list as it was.
C9_IdsFollowPositions ==
    /\ [](/\ \A i \in 1..Len(posts) : posts[i].id = i
          /\ Len(posts) = answered201)
    /\ [][response'.handler = "get_posts" => posts' = posts]_vars

\* two posts stored, a rejected request since, and the list read back
C9_Witness ==
    /\ Len(posts) >= 2
    /\ response.handler = "get_posts"
    /\ response.body = posts
    /\ request # None
    /\ Keys \ DOMAIN request # {}

\* C10: a create_post request lacking 'title' or 'content' is answered 400 with
\* {'error': 'Invalid data'} and leaves the list unchanged; a request with both
\* keys appends a post and is answered 201.
C10_MissingKeyAnswered400 ==
    [][response'.handler = "create_post" =>
          IF Keys \ DOMAIN request' # {}
          THEN /\ response'.status = 400
               /\ response'.body = InvalidData
               /\ posts' = posts
          ELSE /\ response'.status = 201
               /\ posts' = Append(posts, response'.body)]_vars

=============================================================================
